---- MODULE Spec2Model ----
(***************************************************************************)
(* Model of the GraphQL client of graphql-cli-tools (src/src/client.rs):   *)
(* execute selects a transport from the endpoint prefix, http_request and  *)
(* ws_request drive try_http_request / try_ws_request in the reconnect     *)
(* loop, and try_ws_request runs the graphql-transport-ws handshake and    *)
(* the streaming loop.  The server, the network and the response sink are  *)
(* the environment: their outcomes are chosen nondeterministically.        *)
(***************************************************************************)
EXTENDS Integers, Sequences, FiniteSets, TLC

(* ------------------------------ bounds --------------------------------- *)

\* attempts explored per invocation of execute (the loop itself has no cap)
MaxAttempts == 3
\* HTTP bodies and streamed WebSocket messages explored per invocation
\* without a reconnect duration (one attempt)
MaxRx == 3
\* HTTP bodies and streamed WebSocket messages explored per invocation with
\* a reconnect duration
MaxRetryRx == 2
\* entries of the --variable list explored by load_variables
MaxList == 2

(* --------------------------- data of the model ------------------------- *)

\* Option<T>: None is the empty tuple, Some(x) the one-element tuple
None == <<>>

Some(x) == <<x>>

\* the literal prefixes tested by execute, as sequences of characters
HttpPrefix == <<"h", "t", "t", "p", ":", "/", "/">>

HttpsPrefix == <<"h", "t", "t", "p", "s", ":", "/", "/">>

WsPrefix == <<"w", "s", ":", "/", "/">>

WssPrefix == <<"w", "s", "s", ":", "/", "/">>

\* the endpoints given to execute
Endpoints ==
    { HttpPrefix \o <<"a">>,
      HttpsPrefix \o <<"a">>,
      WsPrefix \o <<"a">>,
      WssPrefix \o <<"a">>,
      <<"f", "t", "p", ":", "/", "/", "a">>,
      <<"h", "t", "t", "p", ":", "/", "a">>,
      <<"H", "T", "T", "P", ":", "/", "/", "a">>,
      <<"x">> \o WsPrefix \o <<"a">>,
      <<"w", "s", "s">>,
      <<>> }

\* GraphQlResponse values the server can send: data, extensions (its keys),
\* errors (one entry per error)
HelloWorld == [data |-> Some("world"), extensions |-> {}, errors |-> <<>>]

Failed == [data |-> None, extensions |-> {"code"}, errors |-> <<"failed">>]

GraphQlResponses == {HelloWorld, Failed}

\* what ws_stream.next() / the HTTP body can be, besides the end of the
\* stream: a transport error, a frame that is no text, a text that is no
\* WsResponse, or a WsResponse with its type and optional payload
Envelope(t, p) == [kind |-> "envelope", type |-> t, payload |-> p]

TransportError == [kind |-> "error", type |-> "", payload |-> None]

Undecodable == [kind |-> "undecodable", type |-> "", payload |-> None]

Malformed == [kind |-> "malformed", type |-> "", payload |-> None]

\* the WsResponse messages the server sends: data messages, bare control
\* messages, and control-typed messages that carry a payload
Envelopes ==
    { Envelope("next", Some(HelloWorld)),
      Envelope("next", Some(Failed)),
      Envelope("complete", None),
      Envelope("error", None),
      Envelope("complete", Some(HelloWorld)),
      Envelope("error", Some(Failed)) }

StreamItems == {TransportError, Undecodable, Malformed} \cup Envelopes

\* the first inbound message of an attempt: its content is never looked at
FirstItems ==
    { TransportError, Undecodable,
      Envelope("connection_ack", None), Envelope("error", None) }

VARIABLES
    server_endpoint,        \* execute's endpoint argument
    try_reconnect_duration, \* execute's Option<Duration> argument
    query_readable,         \* whether load_query can read the query file
    pc,                     \* position of the single task
    transport,              \* "none", "http" or "ws": the executor chosen
    result,                 \* "pending", or what execute returned
    attempts,               \* executor attempts started so far
    attempt_result,         \* result of the current attempt ("running" before)
    succeeded,              \* attempts that returned Ok(())
    logged,                 \* errors printed by the driver
    sleeps,                 \* durations slept by the driver, in order
    net_io,                 \* network operations started (connect, POST)
    open_conns,             \* WebSocket connections currently open
    sent,                   \* messages sent on the current connection
    subscribe_ids,          \* ids of the subscribe messages sent, in order
    uuid_state,             \* ids drawn from Uuid::new_v4 so far
    received,               \* inbound items of the current attempt
    rx_serial,              \* bodies and streamed messages read so far
    parsed,                 \* GraphQlResponse values parsed, in order
    sink_log,               \* invocations of response_processor, in order
    variables_from_json,    \* load_variables' file argument and what it holds
    variables_list,         \* load_variables' list of (name, value) overrides
    variables,              \* load_variables' local and result
    codec_pc,               \* position in a serialize / deserialize run
    response,               \* the GraphQlResponse that is serialized
    wire,                   \* the JSON text written or read
    decoded                 \* what deserializing the JSON text gave

vars ==
    << server_endpoint, try_reconnect_duration, query_readable, pc, transport,
       result, attempts, attempt_result, succeeded, logged, sleeps, net_io,
       open_conns, sent, subscribe_ids, uuid_state, received, rx_serial,
       parsed, sink_log, variables_from_json, variables_list, variables,
       codec_pc, response, wire, decoded >>

\* the state of the operations checked on their own
load_vars == << variables_from_json, variables_list, variables >>

codec_vars == << codec_pc, response, wire, decoded >>

pure_vars == << load_vars, codec_vars >>

\* the state of execute
client_vars ==
    << server_endpoint, try_reconnect_duration, query_readable, pc, transport,
       result, attempts, attempt_result, succeeded, logged, sleeps, net_io,
       open_conns, sent, subscribe_ids, uuid_state, received, rx_serial,
       parsed, sink_log >>

inputs == << server_endpoint, try_reconnect_duration, query_readable >>

driver_vars == << attempts, succeeded, logged, sleeps >>

ws_vars == << open_conns, sent, subscribe_ids, uuid_state >>

rx_vars == << received, rx_serial, parsed, sink_log >>

(* ------------------------- pure parts of the code ---------------------- *)

\* str::starts_with
StartsWith(s, prefix) ==
    /\ Len(s) >= Len(prefix)
    /\ SubSeq(s, 1, Len(prefix)) = prefix

\* a sequence occurs somewhere in another
Contains(s, part) ==
    \E i \in 0..(Len(s) - Len(part)) : SubSeq(s, i + 1, i + Len(part)) = part

\* variant of SelectTransport: the scheme is searched for anywhere in the
\* endpoint (str::contains for str::starts_with)
SelectTransportContains(endpoint) ==
    IF Contains(endpoint, HttpPrefix) \/ Contains(endpoint, HttpsPrefix)
    THEN "http"
    ELSE IF Contains(endpoint, WsPrefix) \/ Contains(endpoint, WssPrefix)
         THEN "ws"
         ELSE "InvalidServerEndpointScheme"

\* execute, lines 25-53: the executor an endpoint is routed to
SelectTransport(endpoint) ==
    IF StartsWith(endpoint, HttpPrefix) \/ StartsWith(endpoint, HttpsPrefix)
    THEN "http"
    ELSE IF StartsWith(endpoint, WsPrefix) \/ StartsWith(endpoint, WssPrefix)
         THEN "ws"
         ELSE "InvalidServerEndpointScheme"

\* variant of HttpAfterAttempt: without a duration the error of the attempt
\* is returned to the caller
HttpAfterAttemptSurfaces(res, duration) ==
    [ log   |-> res # "Ok",
      sleep |-> duration,
      ret   |-> IF duration # None THEN "continue" ELSE res ]

\* the body of http_request's loop after try_http_request returned res:
\* whether the error is printed, the duration slept (None: no sleep) and
\* whether the loop goes on or breaks with Ok(())
HttpAfterAttempt(res, duration) ==
    [ log   |-> res # "Ok",
      sleep |-> duration,
      ret   |-> IF duration # None THEN "continue" ELSE "Ok" ]

\* variant of WsAfterAttempt: the loop is left with the attempt's error
WsAfterAttemptBreaksOnErr(res, duration) ==
    [ log   |-> res # "Ok",
      sleep |-> IF res = "Ok" THEN duration ELSE None,
      ret   |-> IF res # "Ok" THEN res
                ELSE IF duration # None THEN "continue" ELSE "Ok" ]

\* variant of WsAfterAttempt: a failed attempt is retried at once
WsAfterAttemptNoSleep(res, duration) ==
    [ log   |-> res # "Ok",
      sleep |-> IF res = "Ok" THEN duration ELSE None,
      ret   |-> IF duration # None THEN "continue" ELSE "Ok" ]

\* the body of ws_request's loop after try_ws_request returned res
WsAfterAttempt(res, duration) ==
    [ log   |-> res # "Ok",
      sleep |-> duration,
      ret   |-> IF duration # None THEN "continue" ELSE "Ok" ]

AfterAttempt(res, duration) ==
    IF transport = "http"
    THEN HttpAfterAttempt(res, duration)
    ELSE WsAfterAttempt(res, duration)

\* try_http_request, lines 108-112, on the outcome of reading the body:
\* the response parsed (if any), the response handed to the sink (if any)
\* and the result of the attempt
HttpBody(r) == [kind |-> "body", type |-> "", payload |-> Some(r)]

HttpItems == {TransportError, Malformed} \cup { HttpBody(r) : r \in GraphQlResponses }

\* variant of HttpStep: the result of the sink is dropped
HttpStepIgnoresSink(item, sink_ok) ==
    IF item.kind = "body"
    THEN [parse |-> item.payload, deliver |-> item.payload, res |-> "Ok"]
    ELSE [ parse   |-> None,
           deliver |-> None,
           res     |-> IF item.kind = "error" THEN "HttpRecv" ELSE "HttpDecode" ]

HttpStep(item, sink_ok) ==
    IF item.kind = "body"
    THEN [ parse   |-> item.payload,
           deliver |-> item.payload,
           res     |-> IF sink_ok THEN "Ok" ELSE "Sink" ]
    ELSE [ parse   |-> None,
           deliver |-> None,
           res     |-> IF item.kind = "error" THEN "HttpRecv" ELSE "HttpDecode" ]

\* the end of the stream: ws_stream.next() yields None
Closed == [kind |-> "closed", type |-> "", payload |-> None]

\* variant of AckStep: a receive error counts as the acknowledgment
AckStepErrorIsAck(item) ==
    IF item.kind = "closed" THEN "WsConnectionInitError"
    ELSE "continue"

\* variant of AckStep: the end of the stream counts as the acknowledgment
AckStepClosedIsAck(item) ==
    IF item.kind = "error" THEN "WsRecv"
    ELSE "continue"

\* try_ws_request, line 199: the first inbound message
AckStep(item) ==
    IF item.kind = "closed" THEN "WsConnectionInitError"
    ELSE IF item.kind = "error" THEN "WsRecv"
    ELSE "continue"

\* variant of StreamStep: the type is looked at first, and only the payload
\* of a next message is handed to the sink
StreamStepNextOnly(item, sink_ok) ==
    IF item.kind = "closed" THEN
        [parse |-> None, deliver |-> None, next |-> "break"]
    ELSE IF item.kind = "error" \/ item.kind = "undecodable" THEN
        [parse |-> None, deliver |-> None, next |-> "continue"]
    ELSE IF item.kind = "malformed" THEN
        [parse |-> None, deliver |-> None, next |-> "Json"]
    ELSE IF item.type = "next" /\ item.payload # None THEN
        [ parse   |-> item.payload,
          deliver |-> item.payload,
          next    |-> IF sink_ok THEN "continue" ELSE "Sink" ]
    ELSE
        [ parse   |-> item.payload,
          deliver |-> None,
          next    |-> IF item.type = "complete" /\ item.payload = None
                      THEN "break" ELSE "continue" ]

\* variant of StreamStep: a payload is handed to the sink a second time
\* when the message is logged
StreamStepDeliversTwice(item, sink_ok) ==
    IF item.kind = "closed" THEN
        [parse |-> None, deliver |-> None, next |-> "break"]
    ELSE IF item.kind = "error" \/ item.kind = "undecodable" THEN
        [parse |-> None, deliver |-> None, next |-> "continue"]
    ELSE IF item.kind = "malformed" THEN
        [parse |-> None, deliver |-> None, next |-> "Json"]
    ELSE IF item.payload # None THEN
        [ parse   |-> item.payload,
          deliver |-> item.payload \o item.payload,
          next    |-> IF sink_ok THEN "continue" ELSE "Sink" ]
    ELSE
        [ parse   |-> None,
          deliver |-> None,
          next    |-> IF item.type = "complete" THEN "break" ELSE "continue" ]

\* variant of StreamStep: the result of the sink is dropped
StreamStepIgnoresSinkErr(item, sink_ok) ==
    IF item.kind = "closed" THEN
        [parse |-> None, deliver |-> None, next |-> "break"]
    ELSE IF item.kind = "error" THEN
        [parse |-> None, deliver |-> None, next |-> "continue"]
    ELSE IF item.kind = "undecodable" THEN
        [parse |-> None, deliver |-> None, next |-> "continue"]
    ELSE IF item.kind = "malformed" THEN
        [parse |-> None, deliver |-> None, next |-> "Json"]
    ELSE IF item.payload # None THEN
        [ parse   |-> item.payload,
          deliver |-> item.payload,
          next    |-> "continue" ]
    ELSE
        [ parse   |-> None,
          deliver |-> None,
          next    |-> IF item.type = "complete" THEN "break" ELSE "continue" ]

\* variant of StreamStep: a frame that is no text ends the attempt with an
\* error
StreamStepUndecodableFails(item, sink_ok) ==
    IF item.kind = "closed" THEN
        [parse |-> None, deliver |-> None, next |-> "break"]
    ELSE IF item.kind = "error" THEN
        [parse |-> None, deliver |-> None, next |-> "continue"]
    ELSE IF item.kind = "undecodable" THEN
        [parse |-> None, deliver |-> None, next |-> "Decode"]
    ELSE IF item.kind = "malformed" THEN
        [parse |-> None, deliver |-> None, next |-> "Json"]
    ELSE IF item.payload # None THEN
        [ parse   |-> item.payload,
          deliver |-> item.payload,
          next    |-> IF sink_ok THEN "continue" ELSE "Sink" ]
    ELSE
        [ parse   |-> None,
          deliver |-> None,
          next    |-> IF item.type = "complete" THEN "break" ELSE "continue" ]

\* variant of StreamStep: a text that is no WsResponse is skipped
StreamStepSkipsMalformed(item, sink_ok) ==
    IF item.kind = "closed" THEN
        [parse |-> None, deliver |-> None, next |-> "break"]
    ELSE IF item.kind = "error" THEN
        [parse |-> None, deliver |-> None, next |-> "continue"]
    ELSE IF item.kind = "undecodable" THEN
        [parse |-> None, deliver |-> None, next |-> "continue"]
    ELSE IF item.kind = "malformed" THEN
        [parse |-> None, deliver |-> None, next |-> "continue"]
    ELSE IF item.payload # None THEN
        [ parse   |-> item.payload,
          deliver |-> item.payload,
          next    |-> IF sink_ok THEN "continue" ELSE "Sink" ]
    ELSE
        [ parse   |-> None,
          deliver |-> None,
          next    |-> IF item.type = "complete" THEN "break" ELSE "continue" ]

\* variant of StreamStep: a bare error message ends the attempt with an
\* error
StreamStepErrorEnds(item, sink_ok) ==
    IF item.kind = "closed" THEN
        [parse |-> None, deliver |-> None, next |-> "break"]
    ELSE IF item.kind = "error" THEN
        [parse |-> None, deliver |-> None, next |-> "continue"]
    ELSE IF item.kind = "undecodable" THEN
        [parse |-> None, deliver |-> None, next |-> "continue"]
    ELSE IF item.kind = "malformed" THEN
        [parse |-> None, deliver |-> None, next |-> "Json"]
    ELSE IF item.payload # None THEN
        [ parse   |-> item.payload,
          deliver |-> item.payload,
          next    |-> IF sink_ok THEN "continue" ELSE "Sink" ]
    ELSE
        [ parse   |-> None,
          deliver |-> None,
          next    |-> IF item.type = "complete" THEN "break"
                      ELSE IF item.type = "error" THEN "ServerError"
                      ELSE "continue" ]

\* variant of StreamStep: a receive error ends the attempt with that error
StreamStepRecvErrorAborts(item, sink_ok) ==
    IF item.kind = "closed" THEN
        [parse |-> None, deliver |-> None, next |-> "break"]
    ELSE IF item.kind = "error" THEN
        [parse |-> None, deliver |-> None, next |-> "WsRecv"]
    ELSE IF item.kind = "undecodable" THEN
        [parse |-> None, deliver |-> None, next |-> "continue"]
    ELSE IF item.kind = "malformed" THEN
        [parse |-> None, deliver |-> None, next |-> "Json"]
    ELSE IF item.payload # None THEN
        [ parse   |-> item.payload,
          deliver |-> item.payload,
          next    |-> IF sink_ok THEN "continue" ELSE "Sink" ]
    ELSE
        [ parse   |-> None,
          deliver |-> None,
          next    |-> IF item.type = "complete" THEN "break" ELSE "continue" ]

\* variant of StreamStep: complete ends the loop after its payload, if
\* any, was handed to the sink
StreamStepCompleteEnds(item, sink_ok) ==
    IF item.kind = "closed" THEN
        [parse |-> None, deliver |-> None, next |-> "break"]
    ELSE IF item.kind = "error" THEN
        [parse |-> None, deliver |-> None, next |-> "continue"]
    ELSE IF item.kind = "undecodable" THEN
        [parse |-> None, deliver |-> None, next |-> "continue"]
    ELSE IF item.kind = "malformed" THEN
        [parse |-> None, deliver |-> None, next |-> "Json"]
    ELSE IF item.payload # None THEN
        [ parse   |-> item.payload,
          deliver |-> item.payload,
          next    |-> IF ~ sink_ok THEN "Sink"
                      ELSE IF item.type = "complete" THEN "break"
                      ELSE "continue" ]
    ELSE
        [ parse   |-> None,
          deliver |-> None,
          next    |-> IF item.type = "complete" THEN "break" ELSE "continue" ]

\* try_ws_request, lines 213-235: one turn of the streaming loop.  next is
\* "continue" (read on), "break" (leave the loop, Ok) or the error returned
StreamStep(item, sink_ok) ==
    IF item.kind = "closed" THEN
        [parse |-> None, deliver |-> None, next |-> "break"]
    ELSE IF item.kind = "error" \/ item.kind = "undecodable" THEN
        [parse |-> None, deliver |-> None, next |-> "continue"]
    ELSE IF item.kind = "malformed" THEN
        [parse |-> None, deliver |-> None, next |-> "Json"]
    ELSE IF item.payload # None THEN
        [ parse   |-> item.payload,
          deliver |-> item.payload,
          next    |-> IF sink_ok THEN "continue" ELSE "Sink" ]
    ELSE
        [ parse   |-> None,
          deliver |-> None,
          next    |-> IF item.type = "complete" THEN "break" ELSE "continue" ]

\* variant of SubscribeId: one id for every attempt
SubscribeIdFixed(drawn) == 1

\* Uuid::new_v4 at line 203: a value never drawn before
SubscribeId(drawn) == drawn + 1

\* main, lines 11-40: the exit code of the process for execute's result
ExitCode(res) == IF res = "Ok" THEN 0 ELSE 1

\* variant of DropWsStream: the connection is closed only on the Ok path
DropWsStreamOnOkOnly(conns, res) == IF res = "Ok" THEN conns - 1 ELSE conns

\* ws_stream goes out of scope when try_ws_request returns res
DropWsStream(conns, res) == conns - 1

(* ------------------------------- at rest ------------------------------ *)

\* serde_json::Map::default()
EmptyMap == << >>

\* the variables of execute at rest
ClientAtRest ==
    /\ server_endpoint = << >>
    /\ try_reconnect_duration = None
    /\ query_readable = TRUE
    /\ pc = "main"
    /\ transport = "none"
    /\ result = "pending"
    /\ attempts = 0
    /\ attempt_result = "none"
    /\ succeeded = 0
    /\ logged = 0
    /\ sleeps = << >>
    /\ net_io = 0
    /\ open_conns = 0
    /\ sent = << >>
    /\ subscribe_ids = << >>
    /\ uuid_state = 0
    /\ received = << >>
    /\ rx_serial = 0
    /\ parsed = << >>
    /\ sink_log = << >>

\* main, line 16, has loaded the variables when execute is called
VariablesLoaded ==
    /\ variables_from_json = [status |-> "none", map |-> EmptyMap]
    /\ variables_list = << >>
    /\ variables = [status |-> "Ok", map |-> EmptyMap]

(* --------------------- GraphQlResponse as JSON text -------------------- *)

\* JSON values: null, a string, an object (its keys), an array (its items)
JsonNull == [t |-> "null", s |-> "", keys |-> {}, items |-> << >>]

JsonString(x) == [t |-> "string", s |-> x, keys |-> {}, items |-> << >>]

JsonObject(k) == [t |-> "object", s |-> "", keys |-> k, items |-> << >>]

JsonArray(a) == [t |-> "array", s |-> "", keys |-> {}, items |-> a]

\* the data of a response as a JSON value and back; "null" is Value::Null
DataToJson(v) == IF v = "null" THEN JsonNull ELSE JsonString(v)

\* the GraphQlResponse values that are serialized
SerializedResponses ==
    { [data |-> d, extensions |-> x, errors |-> e] :
        d \in {None, Some("world"), Some("null")},
        x \in {{}, {"code"}},
        e \in {<< >>, << "failed" >>} }

\* serde::Serialize of GraphQlResponse, lines 146-153: data is always
\* written (null for None), extensions and errors only when not empty
Serialize(r) ==
    LET fields == {"data"}
                    \cup (IF r.extensions = {} THEN {} ELSE {"extensions"})
                    \cup (IF r.errors = << >> THEN {} ELSE {"errors"})
    IN [ k \in fields |->
           IF k = "data"
           THEN (IF r.data = None THEN JsonNull ELSE DataToJson(r.data[1]))
           ELSE IF k = "extensions" THEN JsonObject(r.extensions)
           ELSE JsonArray(r.errors) ]

EmptyResponse == [data |-> None, extensions |-> {}, errors |-> << >>]

\* variant of Deserialize: extensions and errors are required fields
DeserializeNoDefault(obj) ==
    IF \/ "extensions" \notin DOMAIN obj
       \/ "errors" \notin DOMAIN obj
       \/ obj["extensions"].t # "object"
       \/ obj["errors"].t # "array"
    THEN [status |-> "Err", value |-> EmptyResponse]
    ELSE [ status |-> "Ok",
           value  |->
             [ data       |-> IF "data" \notin DOMAIN obj \/ obj["data"].t = "null"
                              THEN None ELSE Some(obj["data"].s),
               extensions |-> obj["extensions"].keys,
               errors     |-> obj["errors"].items ] ]

\* serde::Deserialize of GraphQlResponse, lines 146-153, on a JSON object:
\* a missing or null data is None, missing extensions and errors take
\* their default, a value of the wrong type is an error, any other key is
\* ignored
Deserialize(obj) ==
    IF \/ ("extensions" \in DOMAIN obj /\ obj["extensions"].t # "object")
       \/ ("errors" \in DOMAIN obj /\ obj["errors"].t # "array")
    THEN [status |-> "Err", value |-> EmptyResponse]
    ELSE [ status |-> "Ok",
           value  |->
             [ data       |-> IF "data" \notin DOMAIN obj \/ obj["data"].t = "null"
                              THEN None ELSE Some(obj["data"].s),
               extensions |-> IF "extensions" \in DOMAIN obj
                              THEN obj["extensions"].keys ELSE {},
               errors     |-> IF "errors" \in DOMAIN obj
                              THEN obj["errors"].items ELSE << >> ] ]

\* the values a key of a received JSON object can have
WireValues(k) ==
    IF k = "data" THEN {JsonNull, JsonString("world")}
    ELSE IF k = "extensions" THEN {JsonObject({}), JsonObject({"code"}), JsonNull}
    ELSE IF k = "errors" THEN {JsonArray(<< >>), JsonArray(<< "failed" >>), JsonNull}
    ELSE {JsonString("x")}

\* the JSON objects received: any of the three keys, and an unknown one
WireObjects ==
    UNION { { f \in [D -> {JsonNull, JsonString("world"), JsonString("x"),
                            JsonObject({}), JsonObject({"code"}),
                            JsonArray(<< >>), JsonArray(<< "failed" >>)}] :
                \A k \in D : f[k] \in WireValues(k) } :
            D \in SUBSET {"data", "extensions", "errors", "other"} }

\* no response is being serialized or deserialized
CodecAtRest ==
    /\ codec_pc = "rest"
    /\ response = [given |-> FALSE, value |-> EmptyResponse]
    /\ wire = << >>
    /\ decoded = [status |-> "pending", value |-> EmptyResponse]

\* a response to serialize and read back, or a JSON object to read
InitCodec ==
    /\ ClientAtRest
    /\ VariablesLoaded
    /\ decoded = [status |-> "pending", value |-> EmptyResponse]
    /\ \/ /\ codec_pc = "serialize"
          /\ response \in { [given |-> TRUE, value |-> r] : r \in SerializedResponses }
          /\ wire = << >>
       \/ /\ codec_pc = "deserialize"
          /\ response = [given |-> FALSE, value |-> EmptyResponse]
          /\ wire \in WireObjects

\* serde_json::to_string_pretty(&response), main.rs line 26
SerializeResponse ==
    /\ codec_pc = "serialize"
    /\ wire' = Serialize(response.value)
    /\ codec_pc' = "deserialize"
    /\ UNCHANGED << client_vars, load_vars, response, decoded >>

\* response.json::<GraphQlResponse>(), line 108, and the payload of
\* serde_json::from_str::<WsResponse>, line 217
DeserializeResponse ==
    /\ codec_pc = "deserialize"
    /\ decoded' = Deserialize(wire)
    /\ codec_pc' = "done"
    /\ UNCHANGED << client_vars, load_vars, response, wire >>

NextCodec ==
    \/ SerializeResponse
    \/ DeserializeResponse

SpecCodec == InitCodec /\ [][NextCodec]_vars

(* ---------------------------- load_variables -------------------------- *)

\* names and JSON values of variables
VariableNames == {"a", "b"}

VariableValues == {1, 2, 3}

\* serde_json::Map<String, Value>: a function from the names it holds
JsonMaps == UNION { [D -> VariableValues] : D \in SUBSET VariableNames }

\* the --variables-from-json argument: absent, a file that cannot be read,
\* a file that is no JSON object, or a file holding a JSON object
VariableFiles ==
    { [status |-> st, map |-> EmptyMap] : st \in {"none", "unreadable", "malformed"} }
      \cup { [status |-> "object", map |-> m] : m \in JsonMaps }

\* the --variable arguments, in the order given
RECURSIVE ListsUpTo(_)
ListsUpTo(n) ==
    IF n = 0 THEN { << >> }
    ELSE ListsUpTo(n - 1) \cup
           { Append(l, << k, v >>) :
               l \in { x \in ListsUpTo(n - 1) : Len(x) = n - 1 },
               k \in VariableNames, v \in VariableValues }

VariableLists == ListsUpTo(MaxList)

\* variant of MapInsert: a name the map holds keeps its value
MapInsertKeepsOld(m, k, v) ==
    [ x \in DOMAIN m \cup {k} |-> IF x \in DOMAIN m THEN m[x] ELSE v ]

\* serde_json::Map::insert: the value of k is set or replaced
MapInsert(m, k, v) ==
    [ x \in DOMAIN m \cup {k} |-> IF x = k THEN v ELSE m[x] ]

\* load_variables, lines 78-82: variables.extend(variables_list), the
\* entries inserted in the order of the list
RECURSIVE MapExtend(_, _)
MapExtend(m, list) ==
    IF list = << >> THEN m
    ELSE MapExtend(MapInsert(m, list[1][1], list[1][2]), Tail(list))

\* load_variables, lines 68-76: the map the merge starts from, or the error
ReadVariables(file) ==
    IF file.status = "none" THEN [status |-> "read", map |-> EmptyMap]
    ELSE IF file.status = "unreadable" THEN [status |-> "Io", map |-> EmptyMap]
    ELSE IF file.status = "malformed" THEN [status |-> "Json", map |-> EmptyMap]
    ELSE [status |-> "read", map |-> file.map]

InitVariables ==
    /\ ClientAtRest
    /\ CodecAtRest
    /\ variables_from_json \in VariableFiles
    /\ variables_list \in VariableLists
    /\ variables = [status |-> "pending", map |-> EmptyMap]

\* load_variables, lines 68-76
LoadVariablesFile ==
    /\ variables.status = "pending"
    /\ variables' = ReadVariables(variables_from_json)
    /\ UNCHANGED << client_vars, codec_vars, variables_from_json, variables_list >>

\* load_variables, lines 78-84
LoadVariablesExtend ==
    /\ variables.status = "read"
    /\ variables' = [status |-> "Ok", map |-> MapExtend(variables.map, variables_list)]
    /\ UNCHANGED << client_vars, codec_vars, variables_from_json, variables_list >>

NextVariables ==
    \/ LoadVariablesFile
    \/ LoadVariablesExtend

SpecVariables == InitVariables /\ [][NextVariables]_vars

(* ------------------------------ the state ------------------------------ *)

\* the values of --try-reconnect-duration: absent, or 50 (milliseconds)
Durations == {None, Some(50)}

Init ==
    /\ server_endpoint \in Endpoints
    /\ try_reconnect_duration \in Durations
    /\ query_readable \in BOOLEAN
    /\ pc = "execute"
    /\ transport = "none"
    /\ result = "pending"
    /\ attempts = 0
    /\ attempt_result = "none"
    /\ succeeded = 0
    /\ logged = 0
    /\ sleeps = <<>>
    /\ net_io = 0
    /\ open_conns = 0
    /\ sent = <<>>
    /\ subscribe_ids = <<>>
    /\ uuid_state = 0
    /\ received = <<>>
    /\ rx_serial = 0
    /\ parsed = <<>>
    /\ sink_log = <<>>
    /\ VariablesLoaded
    /\ CodecAtRest

\* the inbound messages explored in this invocation
RxBudget == IF try_reconnect_duration = None THEN MaxRx ELSE MaxRetryRx

\* an inbound item is recorded; the responses parsed from it and the
\* invocations of the sink (step.parse, step.deliver: none or one) are
\* recorded with the attempt and the serial number of the item (the first
\* inbound message of a WebSocket attempt is never parsed and has none)
Record(item, step, sink_ok) ==
    /\ received' = Append(received, item)
    /\ rx_serial' = IF item.kind = "closed" \/ pc = "ws_ack"
                    THEN rx_serial
                    ELSE rx_serial + 1
    /\ parsed' = parsed \o
         [ i \in 1..Len(step.parse) |->
             [att |-> attempts, serial |-> rx_serial + 1, resp |-> step.parse[i]] ]
    /\ sink_log' = sink_log \o
         [ i \in 1..Len(step.deliver) |->
             [att |-> attempts, serial |-> rx_serial + 1,
              resp |-> step.deliver[i], ok |-> sink_ok] ]

\* the attempt returns res to the driver
Return(res) ==
    /\ attempt_result' = res
    /\ pc' = "attempt_done"

(* ------------------------------- execute ------------------------------- *)

\* execute, line 23: load_query(query_path)?
LoadQuery ==
    /\ pc = "execute"
    /\ IF query_readable
       THEN /\ pc' = "select"
            /\ result' = result
       ELSE /\ pc' = "done"
            /\ result' = "Io"
    /\ UNCHANGED << pure_vars, inputs, transport, attempt_result, driver_vars, net_io,
                    ws_vars, rx_vars >>

\* execute, lines 25-53
Select ==
    /\ pc = "select"
    /\ LET t == SelectTransport(server_endpoint) IN
         IF t \in {"http", "ws"}
         THEN /\ transport' = t
              /\ pc' = "loop"
              /\ result' = result
         ELSE /\ transport' = transport
              /\ pc' = "done"
              /\ result' = t
    /\ UNCHANGED << pure_vars, inputs, attempt_result, driver_vars, net_io, ws_vars,
                    rx_vars >>

(* -------------------- http_request and ws_request ---------------------- *)

\* the head of the loop: the call of try_http_request / try_ws_request
Try ==
    /\ pc = "loop"
    /\ attempts < MaxAttempts
    /\ attempts' = attempts + 1
    /\ attempt_result' = "running"
    /\ received' = <<>>
    /\ sent' = <<>>
    /\ pc' = IF transport = "http" THEN "http_send" ELSE "ws_connect"
    /\ UNCHANGED << pure_vars, inputs, transport, result, succeeded, logged, sleeps,
                    net_io, open_conns, subscribe_ids, uuid_state, rx_serial,
                    parsed, sink_log >>

\* if let Err(e) = try_..._request(..).await { println!("{:?}", e); }
Log ==
    /\ pc = "attempt_done"
    /\ succeeded' = IF attempt_result = "Ok" THEN succeeded + 1 ELSE succeeded
    /\ logged' = IF AfterAttempt(attempt_result, try_reconnect_duration).log
                 THEN logged + 1
                 ELSE logged
    /\ pc' = "reconnect"
    /\ UNCHANGED << pure_vars, inputs, transport, result, attempts, attempt_result,
                    sleeps, net_io, ws_vars, rx_vars >>

\* if let Some(duration) = try_reconnect_duration { sleep } else { break Ok(()) }
Reconnect ==
    /\ pc = "reconnect"
    /\ LET a == AfterAttempt(attempt_result, try_reconnect_duration) IN
         /\ sleeps' = IF a.sleep # None THEN Append(sleeps, a.sleep[1]) ELSE sleeps
         /\ IF a.ret = "continue"
            THEN /\ pc' = "loop"
                 /\ result' = result
            ELSE /\ pc' = "done"
                 /\ result' = a.ret
    /\ UNCHANGED << pure_vars, inputs, transport, attempts, attempt_result, succeeded,
                    logged, net_io, ws_vars, rx_vars >>

(* --------------------------- try_http_request -------------------------- *)

\* lines 95-106: build the client, POST the request
HttpSend ==
    /\ pc = "http_send"
    /\ \E o \in {"ClientBuild", "HttpSend", "sent"} :
         /\ net_io' = IF o = "ClientBuild" THEN net_io ELSE net_io + 1
         /\ IF o = "sent"
            THEN /\ pc' = "http_recv"
                 /\ attempt_result' = attempt_result
            ELSE Return(o)
    /\ UNCHANGED << pure_vars, inputs, transport, result, driver_vars, ws_vars, rx_vars >>

\* lines 108-112: read and parse the body, hand the response to the sink
HttpResponse ==
    /\ pc = "http_recv"
    /\ rx_serial < RxBudget
    /\ \E item \in HttpItems, sink_ok \in BOOLEAN :
         LET step == HttpStep(item, sink_ok) IN
           /\ Record(item, step, sink_ok)
           /\ Return(step.res)
    /\ UNCHANGED << pure_vars, inputs, transport, result, driver_vars, net_io, ws_vars >>

(* ---------------------------- try_ws_request --------------------------- *)

\* lines 172-188: build the request, connect
WsConnect ==
    /\ pc = "ws_connect"
    /\ \E o \in {"WsRequest", "WsConnect", "connected"} :
         /\ net_io' = IF o = "WsRequest" THEN net_io ELSE net_io + 1
         /\ IF o = "connected"
            THEN /\ open_conns' = open_conns + 1
                 /\ pc' = "ws_init"
                 /\ attempt_result' = attempt_result
            ELSE /\ open_conns' = open_conns
                 /\ Return(o)
    /\ UNCHANGED << pure_vars, inputs, transport, result, driver_vars, sent,
                    subscribe_ids, uuid_state, rx_vars >>

\* lines 192-197: send connection_init
WsInit ==
    /\ pc = "ws_init"
    /\ \E ok \in BOOLEAN :
         IF ok
         THEN /\ sent' = Append(sent, [type |-> "connection_init", id |-> 0])
              /\ pc' = "ws_ack"
              /\ UNCHANGED << attempt_result, open_conns >>
         ELSE /\ sent' = sent
              /\ open_conns' = DropWsStream(open_conns, "WsSend")
              /\ Return("WsSend")
    /\ UNCHANGED << pure_vars, inputs, transport, result, driver_vars, net_io,
                    subscribe_ids, uuid_state, rx_vars >>

\* line 199: wait for one inbound message
WsAck ==
    /\ pc = "ws_ack"
    /\ \E item \in FirstItems \cup {Closed} :
         /\ Record(item, [parse |-> None, deliver |-> None], FALSE)
         /\ LET next == AckStep(item) IN
              IF next = "continue"
              THEN /\ pc' = "ws_subscribe"
                   /\ UNCHANGED << attempt_result, open_conns >>
              ELSE /\ open_conns' = DropWsStream(open_conns, next)
                   /\ Return(next)
    /\ UNCHANGED << pure_vars, inputs, transport, result, driver_vars, net_io, sent,
                    subscribe_ids, uuid_state >>

\* lines 201-211: draw the id, send subscribe
WsSubscribe ==
    /\ pc = "ws_subscribe"
    /\ uuid_state' = uuid_state + 1
    /\ \E ok \in BOOLEAN :
         IF ok
         THEN /\ sent' = Append(sent, [type |-> "subscribe",
                                       id |-> SubscribeId(uuid_state)])
              /\ subscribe_ids' = Append(subscribe_ids, SubscribeId(uuid_state))
              /\ pc' = "ws_stream"
              /\ UNCHANGED << attempt_result, open_conns >>
         ELSE /\ UNCHANGED << sent, subscribe_ids >>
              /\ open_conns' = DropWsStream(open_conns, "WsSend")
              /\ Return("WsSend")
    /\ UNCHANGED << pure_vars, inputs, transport, result, driver_vars, net_io, rx_vars >>

\* lines 213-237: one turn of while let Some(message) = ws_stream.next().await
WsStream ==
    /\ pc = "ws_stream"
    /\ \E item \in StreamItems \cup {Closed}, sink_ok \in BOOLEAN :
         /\ item = Closed \/ rx_serial < RxBudget
         /\ LET step == StreamStep(item, sink_ok) IN
              /\ Record(item, step, sink_ok)
              /\ IF step.next = "continue"
                 THEN UNCHANGED << pc, attempt_result, open_conns >>
                 ELSE LET res == IF step.next = "break" THEN "Ok" ELSE step.next IN
                        /\ open_conns' = DropWsStream(open_conns, res)
                        /\ Return(res)
    /\ UNCHANGED << pure_vars, inputs, transport, result, driver_vars, net_io, sent,
                    subscribe_ids, uuid_state >>

Next ==
    \/ LoadQuery
    \/ Select
    \/ Try
    \/ Log
    \/ Reconnect
    \/ HttpSend
    \/ HttpResponse
    \/ WsConnect
    \/ WsInit
    \/ WsAck
    \/ WsSubscribe
    \/ WsStream

Spec == Init /\ [][Next]_vars

(* ------------------------------ properties ----------------------------- *)

\* the invocations of the sink made by attempt a, in order
SinkOf(a) == SelectSeq(sink_log, LAMBDA e : e.att = a)

\* the current attempt has returned to the driver
Returned == attempt_result \notin {"none", "running"}

\* the driver was entered (the endpoint was routed to an executor)
Routed == transport # "none"

\* C1 (as claimed): once an attempt has completed without error, no sleep
\* and no further attempt follows under any reconnect policy: the driver is
\* at the end of that attempt or has returned, with Ok(()) as the result.
C1_ReturnsOnSuccess ==
    succeeded > 0 =>
        /\ attempt_result = "Ok"
        /\ pc \in {"reconnect", "done"}
        /\ Len(sleeps) < attempts
        /\ pc = "done" => result = "Ok"

\* C2: the responses handed to the sink are exactly the responses parsed, in
\* the same order, each once: entry by entry the same attempt, message and
\* response, and no message is delivered twice, in one attempt or a later one.
C2_NoDuplicateNoDrop ==
    /\ Len(sink_log) = Len(parsed)
    /\ \A i \in 1..Len(sink_log) :
         /\ i <= Len(parsed)
         /\ sink_log[i].att = parsed[i].att
         /\ sink_log[i].serial = parsed[i].serial
         /\ sink_log[i].resp = parsed[i].resp
    /\ \A i, j \in 1..Len(sink_log) :
         i < j => /\ sink_log[i].serial < sink_log[j].serial
                  /\ sink_log[i].att <= sink_log[j].att

\* C2 witness: two attempts of one invocation of ws_request have each handed
\* a response to the sink.
C2_Witness ==
    /\ transport = "ws"
    /\ \E i, j \in 1..Len(sink_log) : sink_log[i].att # sink_log[j].att

\* the messages read by one WebSocket attempt are an acknowledgment, then
\* payload-bearing messages only, then complete without payload
HappyPath ==
    /\ transport = "ws"
    /\ Len(received) >= 2
    /\ received[1].kind \notin {"closed", "error"}
    /\ received[Len(received)] = Envelope("complete", None)
    /\ \A i \in 2..(Len(received) - 1) :
         received[i].kind = "envelope" /\ received[i].payload # None

\* C3: after an acknowledgment, n payload-bearing messages and a complete
\* without payload, the attempt has left the streaming loop with Ok(()), and
\* the sink was invoked by it exactly n times, with the payloads in arrival
\* order.
C3_HappyPath ==
    HappyPath =>
        /\ pc # "ws_stream"
        /\ attempt_result = "Ok"
        /\ Len(SinkOf(attempts)) = Len(received) - 2
        /\ \A i \in 1..Len(SinkOf(attempts)) :
             /\ i + 1 <= Len(received)
             /\ SinkOf(attempts)[i].resp = received[i + 1].payload[1]
             /\ SinkOf(attempts)[i].ok

\* C3 witness: an acknowledgment, two messages with distinct payloads and
\* complete have been read.
C3_Witness ==
    /\ HappyPath
    /\ Len(received) = 4
    /\ received[2].payload # received[3].payload

\* C4: once the query is loaded and the scheme was looked at, an endpoint
\* starting with http:// or https:// is in the HTTP executor, one starting
\* with ws:// or wss:// in the WebSocket executor, and with any other
\* endpoint execute has returned InvalidServerEndpointScheme without any
\* attempt, sleep or network operation.
C4_TransportSelection ==
    (query_readable /\ pc \notin {"execute", "select"}) =>
        /\ (StartsWith(server_endpoint, HttpPrefix)
              \/ StartsWith(server_endpoint, HttpsPrefix)) =>
             (transport = "http" /\ pc \notin {"ws_connect", "ws_init", "ws_ack",
                                               "ws_subscribe", "ws_stream"})
        /\ (~ StartsWith(server_endpoint, HttpPrefix)
              /\ (StartsWith(server_endpoint, WsPrefix)
                    \/ StartsWith(server_endpoint, WssPrefix))) =>
             (transport = "ws" /\ pc \notin {"http_send", "http_recv"})
        /\ (~ StartsWith(server_endpoint, HttpPrefix)
              /\ ~ StartsWith(server_endpoint, HttpsPrefix)
              /\ ~ StartsWith(server_endpoint, WsPrefix)
              /\ ~ StartsWith(server_endpoint, WssPrefix)) =>
             /\ pc = "done"
             /\ result = "InvalidServerEndpointScheme"
             /\ transport = "none"
             /\ attempts = 0
             /\ sleeps = <<>>
             /\ net_io = 0

\* C4 witness: an endpoint that only contains ws:// was rejected although a
\* reconnect duration is configured.
C4_Witness ==
    /\ pc = "done"
    /\ result = "InvalidServerEndpointScheme"
    /\ try_reconnect_duration # None
    /\ server_endpoint = <<"x">> \o WsPrefix \o <<"a">>

\* C5: without a reconnect duration at most one attempt is made and nothing
\* is slept; when the driver has returned it made exactly one attempt and
\* returned Ok(()), and it logged one failure if the attempt failed (whatever
\* the failure) and none otherwise.
C5_SingleAttempt ==
    (try_reconnect_duration = None /\ Routed) =>
        /\ attempts <= 1
        /\ sleeps = <<>>
        /\ pc = "done" =>
             /\ attempts = 1
             /\ result = "Ok"
             /\ logged = (IF attempt_result = "Ok" THEN 0 ELSE 1)

\* C5 witness: the single attempt failed in the handshake and the driver
\* returned.
C5_Witness ==
    /\ try_reconnect_duration = None
    /\ pc = "done"
    /\ attempt_result = "WsConnectionInitError"
    /\ logged = 1

\* the failures of an attempt before any response was read
EstablishFailures ==
    { "ClientBuild", "HttpSend", "WsRequest", "WsConnect", "WsSend",
      "WsConnectionInitError", "WsRecv" }

\* C6 (as claimed): without a reconnect duration a single attempt that fails
\* to establish makes the process exit with a failure code; with a reconnect
\* duration no error of an attempt is returned.
C6_FirstFailureSurfaced ==
    /\ (try_reconnect_duration = None /\ pc = "done" /\ attempts = 1
          /\ attempt_result \in EstablishFailures) => ExitCode(result) # 0
    /\ (try_reconnect_duration # None /\ attempts > 0) => result = "pending"

\* C6 (amended): the process exits with a failure code exactly when execute
\* returned before any attempt (unreadable query file, invalid scheme); a
\* failed single attempt still exits with success, and with a reconnect
\* duration no error of an attempt is returned.
C6_OnlyFatalSurfaced ==
    /\ pc = "done" =>
         /\ result \in {"Ok", "Io", "InvalidServerEndpointScheme"}
         /\ ExitCode(result) # 0 <=> attempts = 0
         /\ result = "Io" <=> ~ query_readable
    /\ (try_reconnect_duration # None /\ attempts > 0) => result = "pending"

\* C6 witness: without a reconnect duration the POST of the single attempt
\* failed and the process exits with success.
C6_Witness ==
    /\ try_reconnect_duration = None
    /\ pc = "done"
    /\ attempt_result = "HttpSend"
    /\ ExitCode(result) = 0

\* C7: with a reconnect duration d the driver never returns; every sleep
\* lasts d; exactly one sleep separates two attempts; every failed attempt
\* is logged once; and when the k-th of k failing attempts has been logged,
\* k failures are logged and k-1 sleeps have taken place.
C7_RetryForever ==
    (try_reconnect_duration # None /\ Routed) =>
        /\ pc # "done"
        /\ result = "pending"
        /\ \A i \in 1..Len(sleeps) : sleeps[i] = try_reconnect_duration[1]
        /\ Len(sleeps) = (IF pc = "loop" THEN attempts ELSE attempts - 1)
        /\ logged + succeeded =
             (IF pc \in {"loop", "reconnect"} THEN attempts ELSE attempts - 1)
        /\ (pc = "reconnect" /\ succeeded = 0) =>
             (logged = attempts /\ Len(sleeps) = attempts - 1)

\* C7 witness: the third of three failing attempts has been logged, after
\* two sleeps.
C7_Witness ==
    /\ try_reconnect_duration # None
    /\ pc = "reconnect"
    /\ succeeded = 0
    /\ logged = 3
    /\ Len(sleeps) = 2

\* C8: an HTTP attempt invokes the sink at most once; when it has returned,
\* the sink was invoked once, with the parsed response, if a body was
\* received and parsed, and not at all otherwise, and the attempt succeeded
\* exactly when the sink was invoked and accepted.
C8_HttpAttempt ==
    transport = "http" =>
        /\ \A a \in 1..attempts : Len(SinkOf(a)) <= 1
        /\ Returned =>
             LET body == received # <<>> /\ received[1].kind = "body" IN
               /\ body => /\ Len(SinkOf(attempts)) = 1
                          /\ SinkOf(attempts)[1].resp = received[1].payload[1]
               /\ ~ body => SinkOf(attempts) = <<>>
               /\ attempt_result = "Ok" <=>
                    (Len(SinkOf(attempts)) = 1 /\ SinkOf(attempts)[1].ok)

\* C8 witness: the sink rejected the response of an HTTP attempt.
C8_Witness ==
    /\ transport = "http"
    /\ pc = "attempt_done"
    /\ attempt_result = "Sink"
    /\ Len(SinkOf(attempts)) = 1

\* C9: the ids of the subscribe messages sent by the attempts of one
\* invocation are pairwise distinct.
C9_FreshSubscribeIds ==
    \A i, j \in 1..Len(subscribe_ids) :
        i # j => subscribe_ids[i] # subscribe_ids[j]

\* C9 witness: a second attempt has sent its subscribe message.
C9_Witness ==
    /\ Len(subscribe_ids) >= 2
    /\ attempts >= 2
    /\ pc = "ws_stream"

\* C10: at most one WebSocket connection is open, and none is open outside
\* a WebSocket attempt: when the attempt has returned, before the next one
\* starts, and before it connects.
C10_NoConnectionLeft ==
    /\ open_conns <= 1
    /\ pc \in {"execute", "select", "loop", "ws_connect", "http_send",
               "http_recv", "attempt_done", "reconnect", "done"} =>
         open_conns = 0

\* C10 witness: a connection is open in an attempt that follows one aborted
\* by a sink error.
C10_Witness ==
    /\ open_conns = 1
    /\ attempts >= 2
    /\ \E i \in 1..Len(sink_log) : ~ sink_log[i].ok /\ sink_log[i].att < attempts

\* the names given in the --variable list
ListNames == { variables_list[i][1] : i \in 1..Len(variables_list) }

\* C11: when load_variables succeeds, the result holds exactly the names of
\* the file and of the list; a name of the list has the value of its last
\* entry in the list, whatever the file says; a name only in the file keeps
\* the file's value; and extending the result by the list again changes
\* nothing.
C11_VariableMerge ==
    variables.status = "Ok" =>
        LET m == variables.map
            f == variables_from_json.map
        IN /\ DOMAIN m = DOMAIN f \cup ListNames
           /\ \A i \in 1..Len(variables_list) :
                (\A j \in (i + 1)..Len(variables_list) :
                    variables_list[j][1] # variables_list[i][1])
                  => m[variables_list[i][1]] = variables_list[i][2]
           /\ \A k \in DOMAIN f \ ListNames : m[k] = f[k]
           /\ MapExtend(m, variables_list) = m

\* C11 witness: the file {"a":1,"b":2} merged with the list [("b", 3)] gave
\* {"a":1,"b":3}.
C11_Witness ==
    /\ variables.status = "Ok"
    /\ variables_from_json.status = "object"
    /\ DOMAIN variables_from_json.map = {"a", "b"}
    /\ variables_from_json.map["a"] = 1
    /\ variables_from_json.map["b"] = 2
    /\ variables_list = << << "b", 3 >> >>
    /\ variables.map["a"] = 1
    /\ variables.map["b"] = 3

\* C12: a serialized response whose errors and extensions are empty has
\* neither key in its JSON object, and deserializing it, or any JSON object
\* without the two keys, succeeds with both collections empty.
C12_ResponseRoundTrip ==
    /\ (response.given /\ codec_pc # "serialize") =>
         /\ response.value.errors = << >> => "errors" \notin DOMAIN wire
         /\ response.value.extensions = {} => "extensions" \notin DOMAIN wire
         /\ "data" \in DOMAIN wire
    /\ (codec_pc = "done" /\ "errors" \notin DOMAIN wire
          /\ "extensions" \notin DOMAIN wire) =>
         /\ decoded.status = "Ok"
         /\ decoded.value.errors = << >>
         /\ decoded.value.extensions = {}
    /\ (codec_pc = "done" /\ response.given /\ response.value.errors = << >>
          /\ response.value.extensions = {}) =>
         /\ decoded.status = "Ok"
         /\ decoded.value.errors = << >>
         /\ decoded.value.extensions = {}

\* C12 witness: the response {"data":"world"} with empty errors and
\* extensions was serialized and read back.
C12_Witness ==
    /\ codec_pc = "done"
    /\ response.given
    /\ response.value = HelloWorld
    /\ DOMAIN wire = {"data"}
    /\ decoded.status = "Ok"
    /\ decoded.value = HelloWorld

\* the messages of one type sent on the current connection
SentOf(type) == SelectSeq(sent, LAMBDA m : m.type = type)

\* the streaming loop of the current attempt has read a message, the last
\* of received (the first one is the acknowledgment)
StreamRead == transport = "ws" /\ Len(received) >= 2

LastRead == received[Len(received)]

\* the invocations of the sink for the message read last
SinkOfLast == SelectSeq(SinkOf(attempts), LAMBDA e : e.serial = rx_serial)

\* the current attempt is still in its streaming loop
Streaming == pc = "ws_stream" /\ attempt_result = "running"

\* C13: in a WebSocket attempt at most one connection_init and at most one
\* subscribe are sent; once connection_init is sent, exactly one was sent on
\* an open connection; subscribe is sent after connection_init and after
\* exactly one inbound message was received, whatever it holds; and the
\* sink is invoked only after subscribe was sent.
C13_HandshakeOrder ==
    transport = "ws" =>
        /\ Len(SentOf("connection_init")) <= 1
        /\ Len(SentOf("subscribe")) <= 1
        /\ pc \in {"ws_ack", "ws_subscribe", "ws_stream"} =>
             /\ open_conns = 1
             /\ Len(SentOf("connection_init")) = 1
        /\ pc = "ws_subscribe" =>
             /\ Len(sent) = 1
             /\ Len(received) = 1
        /\ Len(SentOf("subscribe")) = 1 =>
             /\ Len(sent) = 2
             /\ sent[1].type = "connection_init"
             /\ sent[2].type = "subscribe"
             /\ Len(received) >= 1
             /\ received[1].kind \notin {"closed", "error"}
        /\ SinkOf(attempts) # << >> => Len(SentOf("subscribe")) = 1

\* C13 witness: subscribe was sent after a first message that is no
\* connection_ack, and nothing else was read yet.
C13_Witness ==
    /\ pc = "ws_stream"
    /\ Len(SentOf("subscribe")) = 1
    /\ received = << Envelope("error", None) >>

\* the attempt got a receive error or the end of the stream in place of
\* the first inbound message
HandshakeFailed ==
    /\ transport = "ws"
    /\ Len(received) >= 1
    /\ received[1].kind \in {"closed", "error"}

\* C14 (as claimed): a transport error or the end of the stream before the
\* first inbound message fails the attempt with WsConnectionInitError,
\* without subscribe and without a sink invocation.
C14_InitErrorOnAnyFailure ==
    HandshakeFailed =>
        /\ attempt_result = "WsConnectionInitError"
        /\ SentOf("subscribe") = << >>
        /\ SinkOf(attempts) = << >>

\* C14 (amended): the end of the stream before the first inbound message
\* fails the attempt with WsConnectionInitError, a transport error fails it
\* with that transport error; either way nothing more is read, subscribe is
\* not sent, the sink is not invoked, and the driver retries after one
\* sleep when a duration is set.
C14_HandshakeFailure ==
    HandshakeFailed =>
        /\ Returned
        /\ attempt_result = (IF received[1].kind = "closed"
                             THEN "WsConnectionInitError" ELSE "WsRecv")
        /\ Len(received) = 1
        /\ Len(sent) = 1
        /\ sent[1].type = "connection_init"
        /\ SinkOf(attempts) = << >>
        /\ open_conns = 0
        /\ pc \in {"attempt_done", "reconnect", "loop", "done"}
        /\ pc = "loop" <=> (try_reconnect_duration # None /\ Len(sleeps) = attempts)
        /\ pc = "done" => try_reconnect_duration = None

\* C14 witness: the stream ended before the acknowledgment and the driver
\* has slept and is about to retry.
C14_Witness ==
    /\ HandshakeFailed
    /\ received[1].kind = "closed"
    /\ attempt_result = "WsConnectionInitError"
    /\ pc = "loop"

\* C15: a response the sink rejected is the last thing its attempt read
\* and delivered, the attempt returns the sink's error at once, and the
\* driver goes on as for any failed attempt: the error is logged, then it
\* sleeps and retries if a duration is set and returns Ok(()) if not.
C15_SinkError ==
    /\ \A i \in 1..Len(sink_log) :
         ~ sink_log[i].ok =>
            /\ i < Len(sink_log) => sink_log[i + 1].att > sink_log[i].att
            /\ sink_log[i].att = attempts =>
                 /\ attempt_result = "Sink"
                 /\ rx_serial = sink_log[i].serial
                 /\ LastRead.payload = Some(sink_log[i].resp)
    /\ attempt_result = "Sink" =>
         /\ pc \in {"attempt_done", "reconnect", "loop", "done"}
         /\ pc # "attempt_done" => logged >= 1 /\ logged + succeeded = attempts
         /\ pc = "loop" <=> (pc # "attempt_done" /\ pc # "reconnect"
                               /\ try_reconnect_duration # None)
         /\ pc = "loop" => Len(sleeps) = attempts
         /\ pc = "done" => (try_reconnect_duration = None /\ result = "Ok")

\* C15 witness: the sink rejected a streamed response and the driver has
\* slept and is about to retry.
C15_Witness ==
    /\ transport = "ws"
    /\ attempt_result = "Sink"
    /\ pc = "loop"
    /\ Len(sleeps) = attempts

\* C16: a streamed frame that cannot be decoded as text is not handed to
\* the sink and leaves the attempt in its streaming loop.
C16_UndecodableSkipped ==
    (StreamRead /\ LastRead = Undecodable) =>
        /\ Streaming
        /\ SinkOfLast = << >>
        /\ open_conns = 1

\* C16 witness: after a frame that is no text the loop has read and
\* delivered another message.
C16_Witness ==
    /\ StreamRead
    /\ Len(received) >= 3
    /\ received[Len(received) - 1] = Undecodable
    /\ SinkOfLast # << >>

\* C17: an HTTP body or a streamed text that does not parse is not handed
\* to the sink and ends the attempt with the parse error; the driver goes
\* on as for any failed attempt.
C17_MalformedResponse ==
    (Len(received) >= 1 /\ LastRead = Malformed) =>
        /\ Returned
        /\ attempt_result = (IF transport = "http" THEN "HttpDecode" ELSE "Json")
        /\ SinkOfLast = << >>
        /\ open_conns = 0
        /\ pc \in {"attempt_done", "reconnect", "loop", "done"}
        /\ pc \in {"reconnect", "loop", "done"} => logged + succeeded = attempts
        /\ pc = "loop" => (try_reconnect_duration # None /\ Len(sleeps) = attempts)
        /\ pc = "done" => (try_reconnect_duration = None /\ result = "Ok")

\* C17 witness: a streamed text was no WsResponse, after a delivered
\* response, and the driver is about to retry.
C17_Witness ==
    /\ StreamRead
    /\ LastRead = Malformed
    /\ SinkOf(attempts) # << >>
    /\ pc = "loop"

\* C18: a streamed WsResponse without payload is not handed to the sink;
\* if its type is complete the attempt has returned Ok(()), and with any
\* other type the attempt stays in its streaming loop.
C18_ControlMessages ==
    (StreamRead /\ LastRead.kind = "envelope" /\ LastRead.payload = None) =>
        /\ SinkOfLast = << >>
        /\ LastRead.type = "complete" => (Returned /\ attempt_result = "Ok")
        /\ LastRead.type # "complete" => Streaming

\* C18 witness: a bare error message was read and the attempt is still
\* streaming.
C18_Witness ==
    /\ StreamRead
    /\ LastRead = Envelope("error", None)
    /\ Streaming

\* C19: a receive error in the streaming loop leaves the attempt in the
\* loop, and the end of the stream ends the attempt with Ok(()), whether
\* or not complete was seen.
C19_TransportConditions ==
    /\ (StreamRead /\ LastRead = TransportError) =>
         (Streaming /\ SinkOfLast = << >>)
    /\ (StreamRead /\ LastRead = Closed) =>
         (Returned /\ attempt_result = "Ok" /\ open_conns = 0)

\* C19 witness: the stream ended right after a receive error, without
\* complete, and the attempt returned Ok(()).
C19_Witness ==
    /\ StreamRead
    /\ Len(received) = 3
    /\ received[2] = TransportError
    /\ LastRead = Closed
    /\ attempt_result = "Ok"

\* C20: a streamed WsResponse with a payload is handed to the sink once,
\* whatever its type, and if the sink accepts it the attempt stays in its
\* streaming loop, also when the type is complete or error.
C20_PayloadBeforeType ==
    (StreamRead /\ LastRead.kind = "envelope" /\ LastRead.payload # None) =>
        /\ Len(SinkOfLast) = 1
        /\ SinkOfLast[1].resp = LastRead.payload[1]
        /\ SinkOfLast[1].ok => Streaming
        /\ ~ SinkOfLast[1].ok => (Returned /\ attempt_result = "Sink")

\* C20 witness: a complete message with a payload was delivered and the
\* attempt is still streaming.
C20_Witness ==
    /\ StreamRead
    /\ LastRead = Envelope("complete", Some(HelloWorld))
    /\ Len(SinkOfLast) = 1
    /\ Streaming

====
